---- MODULE Spec2Model ----
(***************************************************************************)
(* State-machine model of skrl's base Agent (src/skrl/agents/base.py) and  *)
(* of the Isaac Orbit example test (src/tests/test_examples_isaac_orbit.py)*)
(*                                                                         *)
(* The agent's collaborators (networks, memory, SummaryWriter, torch) are  *)
(* modelled by the part of their state the agent's code can touch:         *)
(*   netMode   the mode each network object is in,                         *)
(*   scalars   the (tag, value, step) entries written with add_scalar,     *)
(*   memStore  the transitions held by the memory object.                  *)
(* `ctor` holds the arguments the agent was constructed with, `last` the   *)
(* most recent call on the agent, with its arguments and how it ended,    *)
(* and `test` the runs of test_scripts so far.                             *)
(*                                                                         *)
(* Spec is the agent under every sequence of calls; SpecTest is the test   *)
(* script, which never touches an agent.                                   *)
(***************************************************************************)
EXTENDS Integers, Sequences, FiniteSets, TLC

VARIABLES env, networks, memory, cfg, device, experiment_dir, writer,
          ctor, cuda_available, netMode, scalars, memStore, last, test

fields == <<env, networks, memory, cfg, device, experiment_dir, writer>>
world == <<ctor, cuda_available, netMode, scalars, memStore>>
vars == <<env, networks, memory, cfg, device, experiment_dir, writer,
          ctor, cuda_available, netMode, scalars, memStore, last, test>>

---------------------------------------------------------------------------
(* Bounds of the model *)

\* the networks mapping has at most MaxNets entries (possibly none)
MaxNets == 2
\* the logging sink is followed while it holds at most MaxLog entries
MaxLog == 5
\* the example command exits with a status in 0..MaxStatus
MaxStatus == 2
\* a test session is followed for at most MaxRuns runs of test_scripts
MaxRuns == 4

---------------------------------------------------------------------------
(* Value domains *)

None == "None"
\* network objects; one object may sit under several keys of the mapping
Models == {1, 2}
Modes == {"train", "eval"}
\* states, actions, next_states, dones: tensors the agent never looks into
States == {"s0", "s1"}
Actions == {"a0"}
NextStates == {"s2"}
Dones == {FALSE}
\* a run of Timesteps steps, numbered from 0
Timesteps == {2}
Steps == {0, 1}
\* Union[int, None] of act: <<>> is None, <<n>> is the integer n
OptSteps == {<<>>, <<0>>}
OptTimesteps == {<<>>, <<2>>}

RECURSIVE SeqsUpTo(_, _)
SeqsUpTo(S, n) ==
    IF n = 0 THEN {<<>>}
    ELSE LET shorter == SeqsUpTo(S, n - 1)
         IN  shorter \cup {Append(s, x) : s \in shorter, x \in S}

\* A number held by a tensor or returned by item(): <<num, den>> is the value
\* num/den in lowest terms, and NaN is the floating-point not-a-number.
NaN == <<0, 0>>
num(n) == <<n, 1>>

\* rewards: torch.Tensor, by its element type and its elements
Tensors ==
    [dtype : {"float"},
     data : {<<>>, <<num(2)>>, <<num(-1), num(2)>>, <<num(2), num(-1)>>,
             <<num(2), num(2), num(-1)>>, <<NaN, num(2)>>}]
        \cup [dtype : {"long"}, data : {<<>>, <<num(2), num(-1)>>}]

\* networks: Dict[str, Model]; entry i is the i-th key in iteration order
NetworkMaps == SeqsUpTo(Models, MaxNets)

\* the memory argument of the constructor ("omitted": the default is used)
MemoryArgs == {"omitted", "memory"}

\* cfg dictionaries, as functions from the keys present to their values
dict(keys, device_value) ==
    [k \in keys |-> IF k = "device" THEN device_value
                    ELSE IF k = "log_dir" THEN "logs" ELSE "exp"]
Cfgs ==
    { dict({}, None),
      dict({"device"}, None),
      dict({"device"}, "cuda:1"),
      dict({"log_dir", "experiment_name"}, None),
      dict({"device", "log_dir", "experiment_name"}, "cpu") }

\* What an agent is constructed from and in: either the configuration varies
\* around a single network in training mode, or the networks and their modes vary
\* around the default configuration.
Constructions ==
    [networks : {<<1>>}, memory : MemoryArgs, cfg : Cfgs, cuda : BOOLEAN,
     modes : {[m \in Models |-> "train"]}]
    \cup
    [networks : NetworkMaps, memory : {"omitted"}, cfg : {dict({}, None)},
     cuda : {FALSE}, modes : [Models -> Modes]]

---------------------------------------------------------------------------
(* Agent.__init__ *)

\* dict.get(key, default)
get(d, key, default) == IF key \in DOMAIN d THEN d[key] ELSE default

\* without the fallback of lines 36-37
init_device_keeps_none(c, cuda) == get(c, "device", None)
\* self.device (lines 35-37)
init_device(c, cuda) ==
    LET d == get(c, "device", None)
    IN  IF d = None THEN (IF cuda THEN "cuda" ELSE "cpu") ELSE d

\* self.experiment_dir (lines 40-42): os.path.join of two relative names
init_experiment_dir(c) ==
    LET log_dir == get(c, "log_dir", "cwd/runs")
        experiment_name == get(c, "experiment_name", "now_Agent")
    IN  <<log_dir, experiment_name>>

\* memory left at its default
__init__drops_memory(e, n, m, c, cuda) ==
    [env |-> e, networks |-> n, memory |-> None, cfg |-> c,
     device |-> init_device(c, cuda),
     experiment_dir |-> init_experiment_dir(c),
     writer |-> [log_dir |-> init_experiment_dir(c)]]
\* the fields after Agent(e, n, m, c), with torch.cuda.is_available() = cuda
__init__(e, n, m, c, cuda) ==
    [env |-> e, networks |-> n,
     memory |-> IF m = "omitted" THEN None ELSE m,
     cfg |-> c,
     device |-> init_device(c, cuda),
     experiment_dir |-> init_experiment_dir(c),
     writer |-> [log_dir |-> init_experiment_dir(c)]]

InitAgent(c) ==
    LET a == __init__("env", c.networks, c.memory, c.cfg, c.cuda)
    IN  /\ ctor = [env |-> "env", networks |-> c.networks, memory |-> c.memory,
                   cfg |-> c.cfg]
        /\ cuda_available = c.cuda
        /\ env = a.env
        /\ networks = a.networks
        /\ memory = a.memory
        /\ cfg = a.cfg
        /\ device = a.device
        /\ experiment_dir = a.experiment_dir
        /\ writer = a.writer
        /\ netMode = c.modes
        /\ scalars = <<>>
        /\ memStore = {}
        /\ last = [op |-> "__init__", result |-> "ok"]
        /\ test = <<>>

Init == \E c \in Constructions : InitAgent(c)

---------------------------------------------------------------------------
(* Agent.__str__, act, pre_interaction, post_interaction *)

__str__ ==
    /\ last' = [op |-> "__str__", result |-> "ok"]
    /\ UNCHANGED <<fields, world, test>>

\* returning instead of raising
act_returns(states, inference, timestep, timesteps) ==
    /\ last' = [op |-> "act", result |-> "ok"]
    /\ UNCHANGED <<fields, world, test>>
act(states, inference, timestep, timesteps) ==
    /\ last' = [op |-> "act", result |-> "NotImplementedError"]
    /\ UNCHANGED <<fields, world, test>>

\* a hook that logs the timestep
pre_interaction_logs(timestep, timesteps) ==
    /\ Len(scalars) < MaxLog
    /\ scalars' = Append(scalars, <<"timestep", num(timestep), timestep>>)
    /\ last' = [op |-> "pre_interaction", result |-> "ok"]
    /\ UNCHANGED <<fields, ctor, cuda_available, netMode, memStore, test>>
pre_interaction(timestep, timesteps) ==
    /\ last' = [op |-> "pre_interaction", result |-> "ok"]
    /\ UNCHANGED <<fields, world, test>>

post_interaction(timestep, timesteps) ==
    /\ last' = [op |-> "post_interaction", result |-> "ok"]
    /\ UNCHANGED <<fields, world, test>>

---------------------------------------------------------------------------
(* Agent.record_transition *)

Range(s) == {s[i] : i \in DOMAIN s}

Abs(x) == IF x < 0 THEN -x ELSE x
RECURSIVE GCD(_, _)
GCD(a, b) == IF b = 0 THEN a ELSE GCD(b, a % b)

\* the number n/d (d > 0), in lowest terms
frac(n, d) ==
    LET g == GCD(Abs(n), d) IN <<n \div g, d \div g>>

is_nan(v) == v[2] = 0
has_nan(data) == \E i \in DOMAIN data : is_nan(data[i])
\* a <= b as floating-point numbers compare: never true of a NaN
Leq(a, b) == ~is_nan(a) /\ ~is_nan(b) /\ a[1] * b[2] <= b[1] * a[2]

RECURSIVE tensor_sum(_)
tensor_sum(data) ==
    IF data = <<>> THEN num(0)
    ELSE LET h == Head(data)
             t == tensor_sum(Tail(data))
         IN  frac(h[1] * t[2] + t[1] * h[2], h[2] * t[2])

\* torch.max(t).item(), torch.min(t).item(), torch.mean(t).item() of a non-empty
\* tensor; a NaN among the elements propagates to the result
tensor_max(data) ==
    IF has_nan(data) THEN NaN
    ELSE CHOOSE x \in Range(data) : \A y \in Range(data) : Leq(y, x)
tensor_min(data) ==
    IF has_nan(data) THEN NaN
    ELSE CHOOSE x \in Range(data) : \A y \in Range(data) : Leq(x, y)
tensor_mean(data) ==
    IF has_nan(data) THEN NaN
    ELSE LET sum == tensor_sum(data) IN frac(sum[1], sum[2] * Len(data))

\* the call as `last` keeps it
recorded(states, actions, rewards, next_states, dones, timestep, result) ==
    [op |-> "record_transition", result |-> result,
     transition |-> <<states, actions, rewards, next_states, dones>>,
     timestep |-> timestep]

\* Lines 114-116 on `rewards`: the entries written, in order, and how the call ends
logged(rewards, timestep) ==
    IF rewards.data = <<>>
    THEN \* torch.max of an empty tensor raises before anything is written
         [written |-> <<>>, result |-> "RuntimeError"]
    ELSE IF rewards.dtype # "float"
    THEN \* torch.mean of an integer tensor raises after max and min are written
         [written |->
             << <<"Instantaneous reward/max", tensor_max(rewards.data), timestep>>,
                <<"Instantaneous reward/min", tensor_min(rewards.data), timestep>> >>,
          result |-> "RuntimeError"]
    ELSE [written |->
             << <<"Instantaneous reward/max", tensor_max(rewards.data), timestep>>,
                <<"Instantaneous reward/min", tensor_min(rewards.data), timestep>>,
                <<"Instantaneous reward/mean", tensor_mean(rewards.data), timestep>> >>,
          result |-> "ok"]

\* with line 117's raise in force
record_transition_raises(states, actions, rewards, next_states, dones, timestep, timesteps) ==
    /\ Len(scalars) + 3 <= MaxLog
    /\ LET r == logged(rewards, timestep)
       IN  /\ scalars' = scalars \o r.written
           /\ last' = recorded(states, actions, rewards, next_states, dones, timestep,
                               IF r.result = "ok" THEN "NotImplementedError" ELSE r.result)
    /\ UNCHANGED <<fields, ctor, cuda_available, netMode, memStore, test>>
\* adding the transition to the memory as well
record_transition_stores(states, actions, rewards, next_states, dones, timestep, timesteps) ==
    /\ Len(scalars) + 3 <= MaxLog
    /\ LET r == logged(rewards, timestep)
       IN  /\ scalars' = scalars \o r.written
           /\ last' = recorded(states, actions, rewards, next_states, dones, timestep,
                               r.result)
    /\ memStore' = IF memory = None THEN memStore
                   ELSE memStore \cup {<<states, actions, rewards, next_states, dones>>}
    /\ UNCHANGED <<fields, ctor, cuda_available, netMode, test>>
\* logging at step `timesteps`, with max and min exchanged
record_transition_swaps(states, actions, rewards, next_states, dones, timestep, timesteps) ==
    /\ Len(scalars) + 3 <= MaxLog
    /\ LET r == logged(rewards, timesteps)
       IN  /\ scalars' = scalars \o
                  [i \in DOMAIN r.written |->
                      IF i = 1 /\ Len(r.written) > 1 THEN <<r.written[1][1], r.written[2][2], timesteps>>
                      ELSE IF i = 2 THEN <<r.written[2][1], r.written[1][2], timesteps>>
                      ELSE r.written[i]]
           /\ last' = recorded(states, actions, rewards, next_states, dones, timestep,
                               r.result)
    /\ UNCHANGED <<fields, ctor, cuda_available, netMode, memStore, test>>
record_transition(states, actions, rewards, next_states, dones, timestep, timesteps) ==
    /\ Len(scalars) + 3 <= MaxLog
    /\ LET r == logged(rewards, timestep)
       IN  /\ scalars' = scalars \o r.written
           /\ last' = recorded(states, actions, rewards, next_states, dones, timestep,
                               r.result)
    /\ UNCHANGED <<fields, ctor, cuda_available, netMode, memStore, test>>

---------------------------------------------------------------------------
(* Agent.set_mode *)

\* The loop of lines 128-129 from entry i on. nets[i].set_mode(mode) raises when
\* i = failAt (failAt = 0: no call raises); a call that raises may or may not have
\* switched its network first (`switched`). Returns the networks' modes and the
\* Model.set_mode calls made, in order.
RECURSIVE set_mode_loop(_, _, _, _, _, _, _)
set_mode_loop(i, nets, nm, calls, mode, failAt, switched) ==
    IF i > Len(nets)
    THEN [modes |-> nm, calls |-> calls, raised |-> FALSE]
    ELSE LET called == Append(calls, <<nets[i], mode>>)
         IN  IF i = failAt
             THEN [modes |-> IF switched THEN [nm EXCEPT ![nets[i]] = mode] ELSE nm,
                   calls |-> called, raised |-> TRUE]
             ELSE set_mode_loop(i + 1, nets, [nm EXCEPT ![nets[i]] = mode], called,
                                mode, failAt, switched)

\* the call as `last` keeps it
mode_set(mode, r, failAt) ==
    [op |-> "set_mode", result |-> IF r.raised THEN "NetworkError" ELSE "ok",
     mode |-> mode, calls |-> r.calls, failAt |-> failAt]

\* the loop started one entry late
set_mode_skips_first(mode, failAt, switched) ==
    /\ failAt \in 0..Len(networks)
    /\ LET r == set_mode_loop(2, networks, netMode, <<>>, mode, failAt, switched)
       IN  /\ netMode' = r.modes
           /\ last' = mode_set(mode, r, failAt)
    /\ UNCHANGED <<fields, ctor, cuda_available, scalars, memStore, test>>
\* the networks restored when a call raises
set_mode_rolls_back(mode, failAt, switched) ==
    /\ failAt \in 0..Len(networks)
    /\ LET r == set_mode_loop(1, networks, netMode, <<>>, mode, failAt, switched)
       IN  /\ netMode' = IF r.raised THEN netMode ELSE r.modes
           /\ last' = mode_set(mode, r, failAt)
    /\ UNCHANGED <<fields, ctor, cuda_available, scalars, memStore, test>>
set_mode(mode, failAt, switched) ==
    /\ failAt \in 0..Len(networks)
    /\ LET r == set_mode_loop(1, networks, netMode, <<>>, mode, failAt, switched)
       IN  /\ netMode' = r.modes
           /\ last' = mode_set(mode, r, failAt)
    /\ UNCHANGED <<fields, ctor, cuda_available, scalars, memStore, test>>

---------------------------------------------------------------------------
(* tests/test_examples_isaac_orbit.py *)

COMMANDS == {"orbit -p docs/source/examples/isaacorbit/ppo_cartpole.py --headless --num_envs 64"}
\* how `from omni.isaac.kit import SimulationApp` ends: it succeeds, raises
\* ImportError (caught at line 29) or raises anything else (not caught)
ImportOutcomes == {"ok", "ImportError", "RuntimeError"}
Statuses == 0..MaxStatus

\* One run of test_scripts(capsys, command): `imported` is how the import of
\* omni.isaac.kit ends, `status` the exit status the command ends with if run.
\* The run as `test` keeps it: the subprocesses launched, each with its exit status.
\* (below: without the early return of line 31)
test_run_always_launches(command, imported, status) ==
    [command |-> command, imported |-> imported,
     warned |-> imported = "ImportError", launched |-> <<[cmd |-> command, status |-> status]>>,
     outcome |-> IF status = 0 THEN "passed" ELSE "failed"]
test_run(command, imported, status) ==
    IF imported = "ImportError"
    THEN [command |-> command, imported |-> imported,
          warned |-> TRUE, launched |-> <<>>, outcome |-> "passed"]
    ELSE IF imported # "ok"
    THEN [command |-> command, imported |-> imported,
          warned |-> FALSE, launched |-> <<>>, outcome |-> "failed"]
    ELSE [command |-> command, imported |-> imported,
          warned |-> FALSE, launched |-> <<[cmd |-> command, status |-> status]>>,
          outcome |-> IF status = 0 THEN "passed" ELSE "failed"]

test_scripts(command, imported, status) ==
    /\ Len(test) < MaxRuns
    /\ test' = Append(test, test_run(command, imported, status))
    /\ UNCHANGED <<fields, world, last>>

---------------------------------------------------------------------------
(* The specifications *)

Next ==
    \/ __str__
    \/ \E states \in States, inference \in BOOLEAN, timestep \in OptSteps,
          timesteps \in OptTimesteps :
          act(states, inference, timestep, timesteps)
    \/ \E states \in States, actions \in Actions, rewards \in Tensors, next_states \in NextStates,
          dones \in Dones, timestep \in Steps, timesteps \in Timesteps :
          record_transition(states, actions, rewards, next_states, dones, timestep, timesteps)
    \/ \E mode \in Modes, failAt \in 0..MaxNets, switched \in BOOLEAN :
          set_mode(mode, failAt, switched)
    \/ \E timestep \in Steps, timesteps \in Timesteps : pre_interaction(timestep, timesteps)
    \/ \E timestep \in Steps, timesteps \in Timesteps : post_interaction(timestep, timesteps)

Spec == Init /\ [][Next]_vars

InitTest ==
    InitAgent([networks |-> <<1, 2>>, memory |-> "omitted", cfg |-> dict({}, None),
               cuda |-> FALSE, modes |-> [m \in Models |-> "train"]])

NextTest ==
    \E command \in COMMANDS, imported \in ImportOutcomes, status \in Statuses :
        test_scripts(command, imported, status)

SpecTest == InitTest /\ [][NextTest]_vars

---------------------------------------------------------------------------
(* Properties *)

IsSetMode(l) == l.op = "set_mode"
IsRecord(l) == l.op = "record_transition"
Entries(nets) == {nets[i] : i \in DOMAIN nets}

\* C1: act on the base Agent always ends in NotImplementedError, whatever its
\* arguments, and the failed call writes no scalar, switches no network and
\* leaves every field, the memory and the constructor's arguments as they were.
C1_ActRaises ==
    [][last'.op = "act" =>
          /\ last'.result = "NotImplementedError"
          /\ scalars' = scalars
          /\ netMode' = netMode
          /\ memStore' = memStore
          /\ UNCHANGED <<env, networks, memory, cfg>>]_vars

C1_Witness ==
    /\ last.op = "act"
    /\ scalars # <<>>
    /\ networks # <<>>

\* C2: a set_mode(mode) in which no network's set_mode raises calls set_mode(mode)
\* once for every entry of the networks mapping, in iteration order, and makes no
\* other call: afterwards every network of the mapping is in that mode and every
\* other network object is in the mode it had; with an empty mapping nothing is
\* called and nothing changes. No other method of the agent switches a network,
\* so the networks stay in the mode of the most recent set_mode.
C2_SetModeForwards ==
    [][/\ (IsSetMode(last') /\ last'.result = "ok") =>
              /\ last'.calls = [i \in 1..Len(networks) |-> <<networks[i], last'.mode>>]
              /\ \A i \in DOMAIN networks : netMode'[networks[i]] = last'.mode
              /\ \A i, j \in DOMAIN networks : netMode'[networks[i]] = netMode'[networks[j]]
              /\ \A m \in Models \ Entries(networks) : netMode'[m] = netMode[m]
              /\ networks = <<>> => (last'.calls = <<>> /\ netMode' = netMode)
       /\ ~IsSetMode(last') => netMode' = netMode]_vars

C2_Witness ==
    /\ IsSetMode(last) /\ last.result = "ok" /\ last.mode = "eval"
    /\ Len(networks) = 2 /\ networks[1] # networks[2]
    /\ \A i \in DOMAIN networks : netMode[networks[i]] = "eval"

\* C10: when the set_mode call of the k-th network raises, Agent.set_mode ends with
\* that failure after calling exactly the first k entries: the networks under the
\* entries before the k-th are in the new mode, and every network that was not
\* called (those only under later entries) is in the mode it had before; nothing
\* is rolled back.
C10_SetModeNotAtomic ==
    [][(IsSetMode(last') /\ last'.result # "ok") =>
          LET k == last'.failAt
          IN  /\ k \in 1..Len(networks)
              /\ last'.calls = [i \in 1..k |-> <<networks[i], last'.mode>>]
              /\ \A i \in 1..(k - 1) : netMode'[networks[i]] = last'.mode
              /\ \A m \in Models \ {networks[i] : i \in 1..k} : netMode'[m] = netMode[m]]_vars

\* networks of one agent left in different modes by a failed set_mode
C10_Witness ==
    /\ IsSetMode(last) /\ last.result # "ok" /\ last.failAt = 2
    /\ Len(networks) = 2
    /\ netMode[networks[1]] = last.mode
    /\ netMode[networks[2]] # last.mode

\* the sum of the numerators of a tensor of whole numbers, by index
RECURSIVE SumTo(_, _)
SumTo(data, n) == IF n = 0 THEN 0 ELSE data[n][1] + SumTo(data, n - 1)
Whole(data) == \A i \in DOMAIN data : data[i][2] = 1

\* v is the largest (smallest) element of data, or NaN when data holds a NaN
IsMaxOf(v, data) ==
    IF has_nan(data) THEN is_nan(v)
    ELSE v \in Range(data) /\ \A y \in Range(data) : y[1] * v[2] <= v[1] * y[2]
IsMinOf(v, data) ==
    IF has_nan(data) THEN is_nan(v)
    ELSE v \in Range(data) /\ \A y \in Range(data) : v[1] * y[2] <= y[1] * v[2]
\* v is the arithmetic mean of data, or NaN when data holds a NaN
IsMeanOf(v, data) ==
    IF has_nan(data) THEN is_nan(v)
    ELSE Whole(data) /\ v[2] > 0 /\ v[1] * Len(data) = v[2] * SumTo(data, Len(data))

\* a successful record_transition step appends three entries: the maximum, the
\* minimum and the mean of rewards, under their tags, at step `timestep`
AppendsStatistics ==
    LET data == last'.transition[3].data
        n == Len(scalars)
    IN  /\ data # <<>>
        /\ Len(scalars') = n + 3
        /\ SubSeq(scalars', 1, n) = scalars
        /\ scalars'[n + 1][1] = "Instantaneous reward/max"
        /\ scalars'[n + 2][1] = "Instantaneous reward/min"
        /\ scalars'[n + 3][1] = "Instantaneous reward/mean"
        /\ \A i \in 1..3 : scalars'[n + i][3] = last'.timestep
        /\ IsMaxOf(scalars'[n + 1][2], data)
        /\ IsMinOf(scalars'[n + 2][2], data)
        /\ IsMeanOf(scalars'[n + 3][2], data)
\* the three entries just appended satisfy min <= mean <= max
Ordered ==
    LET n == Len(scalars)
    IN  /\ Leq(scalars'[n + 2][2], scalars'[n + 3][2])
        /\ Leq(scalars'[n + 3][2], scalars'[n + 1][2])

\* C3, as claimed: a record_transition call that succeeds has non-empty rewards
\* and appends exactly three entries to the logging sink, after those already
\* there: the maximum, the minimum and the mean of rewards under the tags
\* 'Instantaneous reward/max', '/min' and '/mean', in that order, each at step
\* `timestep`; the three values are fixed by rewards alone and always satisfy
\* min <= mean <= max.
C3_StatisticsAlwaysOrdered ==
    [][(IsRecord(last') /\ last'.result = "ok") => (AppendsStatistics /\ Ordered)]_vars

\* C3, amended: as claimed, except that min <= mean <= max holds when rewards
\* holds no NaN; when it holds one, the logged mean is NaN and is in no order
\* with the other two values.
C3_RecordLogsRewardStatistics ==
    [][(IsRecord(last') /\ last'.result = "ok") =>
          /\ AppendsStatistics
          /\ ~has_nan(last'.transition[3].data) => Ordered
          /\ has_nan(last'.transition[3].data) =>
                 (is_nan(scalars'[Len(scalars) + 3][2]) /\ ~Ordered)]_vars

\* three entries appended after earlier ones, with min < mean < max
C3_Witness ==
    /\ IsRecord(last) /\ last.result = "ok"
    /\ Len(scalars) = 5
    /\ last.transition[3].data = <<num(2), num(2), num(-1)>>
    /\ scalars[3][2] = num(2) /\ scalars[4][2] = num(-1) /\ scalars[5][2] = num(1)
    /\ scalars[5][3] = last.timestep

\* C4, as claimed: after a record_transition call on an agent constructed with a
\* memory, that memory holds the transition (states, actions, rewards,
\* next_states, dones).
C4_MemoryHoldsTransition ==
    (IsRecord(last) /\ last.result = "ok" /\ memory # None)
        => last.transition \in memStore

\* C4, amended: record_transition on the base Agent stores nothing: whether or
\* not the agent has a memory, and however the call ends, the memory holds after
\* the call exactly the transitions it held before.
C4_RecordLeavesMemory ==
    [][IsRecord(last') => memStore' = memStore]_vars

C4_Witness ==
    /\ IsRecord(last) /\ last.result = "ok"
    /\ memory = "memory"
    /\ last.transition \notin memStore
    /\ Len(scalars) = 3

\* C5, as claimed: act and record_transition alike fail when called on the base
\* Agent, so no record_transition call completes without an error.
C5_ActAndRecordAreStubs ==
    last.op \in {"act", "record_transition"} => last.result # "ok"

\* C5, amended: act is an unimplemented stub that always fails with
\* NotImplementedError, but record_transition is not: it never ends in
\* NotImplementedError, and with a non-empty floating-point rewards tensor it
\* completes without an error.
C5_OnlyActIsStub ==
    [][/\ last'.op = "act" => last'.result = "NotImplementedError"
       /\ IsRecord(last') =>
              /\ last'.result # "NotImplementedError"
              /\ (last'.transition[3].data # <<>> /\ last'.transition[3].dtype = "float")
                     => last'.result = "ok"]_vars

C5_Witness ==
    /\ IsRecord(last) /\ last.result = "ok"
    /\ last.transition[3].dtype = "float"
    /\ memory = None

\* C6: the fields env, networks, memory and cfg are the constructor's arguments
\* (memory is None when it was omitted), and no call, failed or not, changes any
\* of env, networks, memory, cfg, device, experiment_dir and writer, nor the
\* objects the constructor was given.
C6_FieldsSetAtConstruction ==
    /\ [](/\ env = ctor.env
          /\ networks = ctor.networks
          /\ memory = (IF ctor.memory = "omitted" THEN None ELSE ctor.memory)
          /\ cfg = ctor.cfg
          /\ DOMAIN cfg = DOMAIN ctor.cfg
          /\ DOMAIN networks = DOMAIN ctor.networks)
    /\ [][UNCHANGED <<env, networks, memory, cfg, device, experiment_dir, writer, ctor>>]_vars

\* after a failed call on an agent given a memory and a device
C6_Witness ==
    /\ IsSetMode(last) /\ last.result # "ok"
    /\ memory = "memory" /\ ctor.memory = "memory"
    /\ "device" \in DOMAIN cfg
    /\ scalars # <<>>

\* C7: pre_interaction and post_interaction never fail, and change nothing: no
\* scalar is written, no network is switched, and the memory, the fields and the
\* constructor's arguments are as before.
C7_InteractionHooksAreNoOps ==
    [][last'.op \in {"pre_interaction", "post_interaction"} =>
          /\ last'.result = "ok"
          /\ UNCHANGED <<fields, world>>]_vars

C7_Witness ==
    /\ last.op = "post_interaction"
    /\ Len(scalars) = 3
    /\ \E m \in Models : netMode[m] = "eval"

\* C8: in every run of test_scripts the command is launched if and only if the
\* import succeeded; a run whose import raised ImportError warned, launched
\* nothing and passed; a run whose import succeeded launched the command once,
\* and failed exactly when it exited with a non-zero status.
C8_TestLaunchesIffImported ==
    \A i \in DOMAIN test :
        LET r == test[i]
        IN  /\ (r.launched # <<>>) <=> (r.imported = "ok")
            /\ r.imported = "ImportError" =>
                   (r.warned /\ r.launched = <<>> /\ r.outcome = "passed")
            /\ r.imported = "ok" =>
                   /\ Len(r.launched) = 1
                   /\ r.launched[1].cmd = r.command
                   /\ (r.outcome = "failed") <=> (r.launched[1].status # 0)
                   /\ (r.outcome = "passed") <=> (r.launched[1].status = 0)

C8_Witness ==
    /\ \E i \in DOMAIN test : test[i].imported = "ImportError" /\ test[i].outcome = "passed"
    /\ \E i \in DOMAIN test : test[i].imported = "ok" /\ test[i].outcome = "failed"
    /\ \E i \in DOMAIN test : test[i].imported = "ok" /\ test[i].outcome = "passed"

\* C9: the agent's device is never None: it is cfg's 'device' entry when there is
\* one that is not None, and otherwise the CUDA device when CUDA is available and
\* the CPU device when it is not; cfg is as it was passed.
C9_DeviceNeverNone ==
    /\ device # None
    /\ ("device" \in DOMAIN cfg /\ cfg["device"] # None) => device = cfg["device"]
    /\ ("device" \notin DOMAIN cfg \/ cfg["device"] = None) =>
           device = (IF cuda_available THEN "cuda" ELSE "cpu")
    /\ cfg = ctor.cfg
    /\ DOMAIN cfg = DOMAIN ctor.cfg

\* cfg holds 'device': None, CUDA is available, and calls have been made
C9_Witness ==
    /\ "device" \in DOMAIN cfg /\ cfg["device"] = None
    /\ cuda_available /\ device = "cuda"
    /\ last.op = "record_transition"

====
